---- MODULE Spec2Model ----
(***************************************************************************)
(* Password strength detector: the scoring engine score_password and the   *)
(* command-line runner that calls it once.                                 *)
(*                                                                         *)
(* A password is a sequence of one-character strings.  Entropy values are  *)
(* fixed-point numbers: an integer e stands for e / Scale bits.            *)
(***************************************************************************)
EXTENDS Integers, Sequences, FiniteSets, TLC

\* ------------------------------------------------------------------------
\* Bounds of the model
\* ------------------------------------------------------------------------

\* Longest password the runner reads.
MaxLen == 22

\* Largest number of fragments a typed password is composed of.
MaxParts == 3

\* ------------------------------------------------------------------------
\* Characters
\* ------------------------------------------------------------------------

LOWER ==
  << "a","b","c","d","e","f","g","h","i","j","k","l","m",
     "n","o","p","q","r","s","t","u","v","w","x","y","z" >>

UPPER ==
  << "A","B","C","D","E","F","G","H","I","J","K","L","M",
     "N","O","P","Q","R","S","T","U","V","W","X","Y","Z" >>

DIGITS == << "0","1","2","3","4","5","6","7","8","9" >>

Range(s) == { s[i] : i \in DOMAIN s }

\* the character classes [a-z], [A-Z], [0-9] of the regular expressions
IsLower(c) == c \in Range(LOWER)

IsUpper(c) == c \in Range(UPPER)

IsDigit(c) == c \in Range(DIGITS)

IsLetter(c) == IsLower(c) \/ IsUpper(c)

\* characters str.strip() removes
Whitespace == { " ", "\t", "\n", "\r" }

\* str.lower() on one character
LowerChar(c) ==
  IF IsUpper(c) THEN LOWER[CHOOSE i \in DOMAIN UPPER : UPPER[i] = c] ELSE c

\* str.lower()
Lower(s) == [ i \in DOMAIN s |-> LowerChar(s[i]) ]

\* s[::-1]
Reverse(s) == [ i \in DOMAIN s |-> s[Len(s) + 1 - i] ]

\* the Python test  sub in s  on strings
Contains(s, sub) ==
  \E i \in 0 .. (Len(s) - Len(sub)) :
    \A j \in 1 .. Len(sub) : s[i + j] = sub[j]

\* str.strip(): drop leading and trailing whitespace
RECURSIVE LStrip(_)
LStrip(s) ==
  IF s # << >> /\ Head(s) \in Whitespace THEN LStrip(Tail(s)) ELSE s

RECURSIVE RStrip(_)
RStrip(s) ==
  IF s # << >> /\ s[Len(s)] \in Whitespace
  THEN RStrip(SubSeq(s, 1, Len(s) - 1))
  ELSE s

Strip(s) == RStrip(LStrip(s))

\* ------------------------------------------------------------------------
\* Static reference data
\* ------------------------------------------------------------------------

COMMON_PASSWORDS ==
  { << "p","a","s","s","w","o","r","d" >>,
    << "1","2","3","4","5","6" >>,
    << "1","2","3","4","5","6","7","8","9" >>,
    << "q","w","e","r","t","y" >>,
    << "l","e","t","m","e","i","n" >>,
    << "a","d","m","i","n" >>,
    << "p","a","s","s","w","o","r","d","1" >>,
    << "w","e","l","c","o","m","e" >>,
    << "i","l","o","v","e","y","o","u" >>,
    << "m","o","n","k","e","y" >>,
    << "d","r","a","g","o","n" >>,
    << "f","o","o","t","b","a","l","l" >> }

KEYBOARD_PATTERNS ==
  << << "q","w","e","r","t","y" >>,
     << "a","s","d","f" >>,
     << "z","x","c","v" >>,
     << "p","o","i","u","y" >>,
     << "l","k","j","h" >>,
     << "m","n","b","v" >>,
     << "1","2","3","4","5" >>,
     << "6","7","8","9","0" >> >>

SEQUENCES == << LOWER, UPPER, DIGITS >>

\* ------------------------------------------------------------------------
\* math.log2 in fixed point
\* ------------------------------------------------------------------------

\* one bit of entropy
Scale == 100000

\* Log2Table[n] = log2(n) * Scale, rounded to the nearest integer
Log2Table ==
  << 0, 100000, 158496, 200000, 232193, 258496, 280735, 300000,
     316993, 332193, 345943, 358496, 370044, 380735, 390689, 400000,
     408746, 416993, 424793, 432193, 439232, 445943, 452356, 458496,
     464386, 470044, 475489, 480735, 485798, 490689, 495420, 500000,
     504439, 508746, 512928, 516993, 520945, 524793, 528540, 532193,
     535755, 539232, 542626, 545943, 549185, 552356, 555459, 558496,
     561471, 564386, 567243, 570044, 572792, 575489, 578136, 580735,
     583289, 585798, 588264, 590689, 593074, 595420, 597728, 600000,
     602237, 604439, 606609, 608746, 610852, 612928, 614975, 616993,
     618982, 620945, 622882, 624793, 626679, 628540, 630378, 632193,
     633985, 635755, 637504, 639232, 640939, 642626, 644294, 645943,
     647573, 649185, 650779, 652356, 653916, 655459, 656986 >>

Log2(n) == Log2Table[n]

Min(a, b) == IF a < b THEN a ELSE b

Max(a, b) == IF a > b THEN a ELSE b

\* ------------------------------------------------------------------------
\* Helper checks
\* ------------------------------------------------------------------------

\* detect_charsets: (sets_size, used)
detect_charsets(pw) ==
  LET lo == \E i \in DOMAIN pw : IsLower(pw[i])
      up == \E i \in DOMAIN pw : IsUpper(pw[i])
      di == \E i \in DOMAIN pw : IsDigit(pw[i])
      sy == \E i \in DOMAIN pw :
              ~ (IsLower(pw[i]) \/ IsUpper(pw[i]) \/ IsDigit(pw[i]))
  IN  [ sets_size |-> (IF lo THEN 26 ELSE 0) + (IF up THEN 26 ELSE 0)
                      + (IF di THEN 10 ELSE 0) + (IF sy THEN 33 ELSE 0),
        used |-> (IF lo THEN << "lowercase" >> ELSE << >>)
                 \o (IF up THEN << "uppercase" >> ELSE << >>)
                 \o (IF di THEN << "digits" >> ELSE << >>)
                 \o (IF sy THEN << "symbols" >> ELSE << >>) ]

\* the sum over freq.values() of  -p * log2(p) * length  with p = count/length,
\* which is  count * (log2(length) - log2(count))
RECURSIVE EntropySum(_, _)
EntropySum(pw, chars) ==
  IF chars = {} THEN 0
  ELSE LET ch == CHOOSE c \in chars : TRUE
           count == Cardinality({ i \in DOMAIN pw : pw[i] = ch })
       IN  count * (Log2(Len(pw)) - Log2(count))
           + EntropySum(pw, chars \ {ch})

shannon_entropy_bits(pw) ==
  IF pw = << >> THEN 0 ELSE EntropySum(pw, Range(pw))

estimated_search_space_entropy_bits(pw) ==
  LET charset_size == detect_charsets(pw).sets_size
  IN  IF charset_size = 0 THEN 0 ELSE Len(pw) * Log2(charset_size)

\* the regular expression (.)\1{run_len-1,} : "." matches any character
\* except a line break
has_repeated_runs_n(pw, run_len) ==
  \E i \in 1 .. (Len(pw) - run_len + 1) :
    /\ pw[i] # "\n"
    /\ \A j \in 1 .. (run_len - 1) : pw[i + j] = pw[i]

has_repeated_runs(pw) == has_repeated_runs_n(pw, 4)

has_sequence_n(pw, seq_len) ==
  LET lower == Lower(pw)
  IN  \E k \in DOMAIN SEQUENCES :
        LET seq_lower == Lower(SEQUENCES[k])
            rev == Reverse(seq_lower)
        IN  \/ \E i \in 0 .. (Len(seq_lower) - seq_len) :
                 Contains(lower, SubSeq(seq_lower, i + 1, i + seq_len))
            \/ \E i \in 0 .. (Len(rev) - seq_len) :
                 Contains(lower, SubSeq(rev, i + 1, i + seq_len))

has_sequence(pw) == has_sequence_n(pw, 4)

has_keyboard_pattern_n(pw, min_len) ==
  LET lower == Lower(pw)
  IN  \E k \in DOMAIN KEYBOARD_PATTERNS :
        /\ Len(KEYBOARD_PATTERNS[k]) >= min_len
        /\ Contains(lower, KEYBOARD_PATTERNS[k])

has_keyboard_pattern(pw) == has_keyboard_pattern_n(pw, 4)

\* re.match(r"^[a-zA-Z]+[0-9]{1,4}$", s): "$" matches at the end of the
\* string and also just before a line break that ends the string
MatchLettersDigits(s) ==
  LET t == IF s # << >> /\ s[Len(s)] = "\n"
           THEN SubSeq(s, 1, Len(s) - 1) ELSE s
  IN  \E d \in 1 .. 4 :
        /\ Len(t) > d
        /\ \A i \in 1 .. (Len(t) - d) : IsLetter(t[i])
        /\ \A i \in (Len(t) - d + 1) .. Len(t) : IsDigit(t[i])

\* re.sub(r"[0-9]+$", "", s) on a string that does not end in a line break
RECURSIVE StripTrailingDigits(_)
StripTrailingDigits(s) ==
  IF s # << >> /\ IsDigit(s[Len(s)])
  THEN StripTrailingDigits(SubSeq(s, 1, Len(s) - 1))
  ELSE s

\* str.translate(leet_map) on one character
LeetChar(c) ==
  CASE c = "@" -> "a"
    [] c = "0" -> "o"
    [] c = "1" -> "i"
    [] c = "!" -> "i"
    [] c = "$" -> "s"
    [] c = "3" -> "e"
    [] OTHER -> c

Leet(s) == [ i \in DOMAIN s |-> LeetChar(s[i]) ]

\* looks_like_common_password without the leetspeak normalisation
looks_like_common_password_NoLeet(pw) ==
  LET raw == Strip(pw)
      lower == Lower(raw)
  IN  \/ lower \in COMMON_PASSWORDS
      \/ /\ MatchLettersDigits(raw)
         /\ Lower(StripTrailingDigits(raw)) \in COMMON_PASSWORDS

looks_like_common_password(pw) ==
  LET raw == Strip(pw)
      lower == Lower(raw)
      normalized == Leet(lower)
  IN  \/ lower \in COMMON_PASSWORDS
      \/ /\ MatchLettersDigits(raw)
         /\ Lower(StripTrailingDigits(raw)) \in COMMON_PASSWORDS
      \/ normalized \in COMMON_PASSWORDS

\* ------------------------------------------------------------------------
\* score_password
\* ------------------------------------------------------------------------

\* the length tiers with the second boundary at 11 instead of 12
LengthPts_Below11(length) ==
  IF length < 8 THEN 5
  ELSE IF length < 11 THEN 20
  ELSE IF length < 16 THEN 32
  ELSE 40

\* the length tiers with the third comparison <= 16 instead of < 16
LengthPts_Through16(length) ==
  IF length < 8 THEN 5
  ELSE IF length < 12 THEN 20
  ELSE IF length <= 16 THEN 32
  ELSE 40

\* the length tiers with the points of the first two tiers exchanged
LengthPts_Swapped(length) ==
  IF length < 8 THEN 20
  ELSE IF length < 12 THEN 5
  ELSE IF length < 16 THEN 32
  ELSE 40

\* length scoring (max 40 points)
LengthPts(length) ==
  IF length < 8 THEN 5
  ELSE IF length < 12 THEN 20
  ELSE IF length < 16 THEN 32
  ELSE 40

LengthFeedback(length) ==
  IF length < 8
  THEN << "Too short: aim for at least 12-16 characters." >>
  ELSE IF length < 12
  THEN << "Decent length, but 12-16+ is better." >>
  ELSE << >>

\* charset variety (max 20 points)
VarietyPts(used_sets) == Min(20, Len(used_sets) * 5)

VarietyFeedback(used_sets) ==
  (IF "lowercase" \notin Range(used_sets)
   THEN << "add lowercase letters to increase variety." >> ELSE << >>)
  \o (IF "uppercase" \notin Range(used_sets)
      THEN << "Add uppercase letters to increase variety." >> ELSE << >>)
  \o (IF "digits" \notin Range(used_sets)
      THEN << "Add digits to increase variety." >> ELSE << >>)
  \o (IF "symbols" \notin Range(used_sets)
      THEN << "Add symbols(e.g., !@#$) to increase variety." >> ELSE << >>)

\* entropy contribution (max 25 points): int(min(25, (entropy_bits / 80.0) * 25))
EntropyPts(entropy_bits) == Min(25, (entropy_bits * 25) \div (80 * Scale))

CommonFeedback ==
  "This looks like a common password or easy variation-avoid it."

RepeatFeedback == "Avoid repeated characters (e.g., aaaa, 1111)."

KeyboardFeedback == "Avoid keyboard patterns (e.g., qwerty, asdf)."

GreatFeedback ==
  "Great password. Consider using a password manager to generate/store unique passwords."

\* the penalties with 6 more points subtracted for a sequence
Penalties_WithSequence(pw) ==
  (IF looks_like_common_password(pw) THEN 25 ELSE 0)
  + (IF has_repeated_runs(pw) THEN 8 ELSE 0)
  + (IF has_sequence(pw) THEN 6 ELSE 0)
  + (IF has_keyboard_pattern(pw) THEN 6 ELSE 0)

\* the local variable penalties when it is subtracted from the score
Penalties(pw) ==
  (IF looks_like_common_password(pw) THEN 25 ELSE 0)
  + (IF has_repeated_runs(pw) THEN 8 ELSE 0)
  + (IF has_keyboard_pattern(pw) THEN 6 ELSE 0)

PenaltyFeedback(pw) ==
  (IF looks_like_common_password(pw) THEN << CommonFeedback >> ELSE << >>)
  \o (IF has_repeated_runs(pw) THEN << RepeatFeedback >> ELSE << >>)
  \o (IF has_keyboard_pattern(pw) THEN << KeyboardFeedback >> ELSE << >>)

\* the clamp without its lower end
Clamp_NoFloor(score) == Min(100, score)

\* clamp score to 0-100
Clamp(score) == Max(0, Min(100, score))

\* the label: four successive if statements, each overwriting the label
\* set by the one before; the last one has the else branch
Label(score) ==
  LET l1 == IF score < 20 THEN "Very Weak" ELSE "unbound"
      l2 == IF score < 40 THEN "Weak" ELSE l1
      l3 == IF score < 60 THEN "fair" ELSE l2
      l4 == IF score < 80 THEN "Strong" ELSE "Very Strong"
  IN  l4

\* the min of the two entropy estimates
EntropyBits(pw) ==
  Min(shannon_entropy_bits(pw), estimated_search_space_entropy_bits(pw))

\* the score before the clamp
RawScore(pw) ==
  LengthPts(Len(pw))
  + VarietyPts(detect_charsets(pw).used)
  + EntropyPts(EntropyBits(pw))
  - Penalties(pw)

EmptyResult ==
  [ score |-> 0, label |-> "Very Weak", entropy_bits |-> 0,
    feedback |-> << "Password is empty" >> ]

ScoreNonEmpty(pw) ==
  LET score == Clamp(RawScore(pw))
      fb == LengthFeedback(Len(pw))
            \o VarietyFeedback(detect_charsets(pw).used)
            \o PenaltyFeedback(pw)
  IN  [ score |-> score,
        label |-> Label(score),
        entropy_bits |-> EntropyBits(pw),
        feedback |-> IF fb = << >> /\ score >= 80
                     THEN << GreatFeedback >> ELSE fb ]

\* score_password without the early return for the empty string
score_password_NoEmptyCase(pw) == ScoreNonEmpty(pw)

score_password(pw) ==
  IF pw = << >> THEN EmptyResult ELSE ScoreNonEmpty(pw)

\* ------------------------------------------------------------------------
\* Passwords handed to the engine
\* ------------------------------------------------------------------------

\* passwords named by the tests and the documentation of the checks
Hello123 == << "h","e","l","l","o","1","2","3" >>

StrongPw ==
  << "T","!","m","3","-","W","h","4","l","3","_",
     "_","G","0","l","d","#","9","4","7","2" >>

Examples ==
  { Hello123,
    StrongPw,
    << "P","a","s","s","w","o","r","d","1","2","3" >>,
    << "p","@","s","s","w","0","r","d" >>,
    << "a","a","a","a","1","2","3","4" >>,
    << "a","a","a","1","2","3","4","b" >>,
    << "a","b","c","d","1","2","3","4" >>,
    << "q","w","e","r","t","y","x","y","z" >>,
    << "P","A","S","S","W","O","R" >> }

\* the one fragment that is a 4-character sequence
SeqFragment == << "a","b","c","d" >>

Fragments ==
  { << "a" >>, << "Z" >>, << "1" >>, << " " >>,
    << "\n", "\n" >>,
    << "1","1","1" >>,
    << "1","2","3" >>,
    SeqFragment,
    << "b","d","a","c" >>,
    << "p","a","s","s","w","o","r","d" >>,
    << "q","w","e","r","t","y" >>,
    << "_","G","0","l","d","#","9","4","7","2" >> }

\* the passwords made of at most k fragments, no longer than MaxLen
RECURSIVE Composed(_)
Composed(k) ==
  IF k = 0 THEN { << >> }
  ELSE LET shorter == Composed(k - 1)
       IN  shorter \cup
           { p \o f : p \in shorter, f \in Fragments }

Inputs ==
  { p \in Examples \cup Composed(MaxParts) : Len(p) <= MaxLen }

\* ------------------------------------------------------------------------
\* The runner: read one password, score it, print the result
\* ------------------------------------------------------------------------

\* where the runner is: "read", "score", "print" or "done"
VARIABLE pc

\* the password read
VARIABLE pw

\* the StrengthResult returned by score_password
VARIABLE result

\* the local variable penalties of score_password at its return
VARIABLE penalties

\* the lines printed
VARIABLE printed

vars == << pc, pw, result, penalties, printed >>

NoResult == [ score |-> 0, label |-> "", entropy_bits |-> 0, feedback |-> << >> ]

Init ==
  /\ pc = "read"
  /\ pw = << >>
  /\ result = NoResult
  /\ penalties = 0
  /\ printed = << >>

\* pw = input(...), or any other caller handing a string to the engine
ReadPassword ==
  /\ pc = "read"
  /\ \E p \in Inputs : pw' = p
  /\ pc' = "score"
  /\ UNCHANGED << result, penalties, printed >>

\* result = score_password(pw)
ScorePassword ==
  /\ pc = "score"
  /\ result' = score_password(pw)
  /\ penalties' = IF pw = << >> THEN 0 ELSE Penalties(pw)
  /\ pc' = "print"
  /\ UNCHANGED << pw, printed >>

\* the score, label and suggestion lines printed
PrintResult ==
  /\ pc = "print"
  /\ printed' = << result.score, result.label >>
                \o [ i \in DOMAIN result.feedback |-> result.feedback[i] ]
  /\ pc' = "done"
  /\ UNCHANGED << pw, result, penalties >>

Next == ReadPassword \/ ScorePassword \/ PrintResult

Spec == Init /\ [][Next]_vars

\* ------------------------------------------------------------------------
\* Properties
\* ------------------------------------------------------------------------

\* score_password has returned
Scored == pc \in { "print", "done" }

HasLower(p) == \E i \in DOMAIN p : IsLower(p[i])

HasUpper(p) == \E i \in DOMAIN p : IsUpper(p[i])

HasDigit(p) == \E i \in DOMAIN p : IsDigit(p[i])

HasSymbol(p) == \E i \in DOMAIN p : ~ (IsLetter(p[i]) \/ IsDigit(p[i]))

AllFourClasses(p) == HasLower(p) /\ HasUpper(p) /\ HasDigit(p) /\ HasSymbol(p)

\* C1: for every input, empty or not, the returned score is an integer
\* between 0 and 100 and the returned entropy is not negative.
C1_ScoreBounded ==
  Scored => /\ result.score \in 0 .. 100
            /\ result.entropy_bits >= 0

\* a password whose points minus penalties are below zero was clamped to 0
C1_Witness ==
  /\ Scored
  /\ pw # << >>
  /\ RawScore(pw) < 0
  /\ result.score = 0

\* C2: the label is fixed by the clamped score through five exclusive bins:
\* [0,20) Very Weak, [20,40) Weak, [40,60) Fair, [60,80) Strong,
\* [80,100] Very Strong.
C2_LabelBins ==
  Scored =>
    result.label = IF result.score < 20 THEN "Very Weak"
                   ELSE IF result.score < 40 THEN "Weak"
                   ELSE IF result.score < 60 THEN "Fair"
                   ELSE IF result.score < 80 THEN "Strong"
                   ELSE "Very Strong"

\* C3: the empty string gives score 0, label Very Weak, entropy 0.0 and the
\* single feedback line "Password is empty"; nothing else contributes.
C3_EmptyPassword ==
  (Scored /\ pw = << >>) =>
    /\ result.score = 0
    /\ result.label = "Very Weak"
    /\ result.entropy_bits = 0
    /\ result.feedback = << "Password is empty" >>
    /\ penalties = 0

C3_Witness == Scored /\ pw = << >> /\ Len(result.feedback) = 1

\* the letters-then-digits shape of clause (b): one or more letters followed
\* by 1 to 4 digits, the letters in lower case being a common password
LettersDigitsVariant(s) ==
  \E d \in 1 .. 4 :
    /\ Len(s) > d
    /\ \A i \in 1 .. Len(s) : IF i <= Len(s) - d THEN IsLetter(s[i])
                                                 ELSE IsDigit(s[i])
    /\ Lower(SubSeq(s, 1, Len(s) - d)) \in COMMON_PASSWORDS

ExactCommon(p) == Lower(Strip(p)) \in COMMON_PASSWORDS

LeetCommon(p) == Leet(Lower(Strip(p))) \in COMMON_PASSWORDS

CommonPenaltyApplied ==
  /\ penalties \in { 25, 25 + 8, 25 + 6, 25 + 8 + 6 }
  /\ CommonFeedback \in Range(result.feedback)

CommonPenaltyAbsent ==
  /\ penalties \in { 0, 8, 6, 8 + 6 }
  /\ CommonFeedback \notin Range(result.feedback)

\* C4 as stated: the common-password penalty of 25 and its feedback line are
\* applied exactly when (a) the trimmed lowercased password is in the common
\* set, or (b) the password as passed in, not trimmed, is letters followed by
\* 1 to 4 digits with a common lowercased letter prefix, or (c) the
\* lowercased password after the leetspeak substitutions is in the set.
C4_AsStated ==
  (Scored /\ pw # << >>) =>
    IF ExactCommon(pw) \/ LettersDigitsVariant(pw) \/ LeetCommon(pw)
    THEN CommonPenaltyApplied ELSE CommonPenaltyAbsent

\* the cases the claim names: "password", "Password123" and "p@ssw0rd"
NamedCommonCases ==
  { << "p","a","s","s","w","o","r","d" >>,
    << "P","a","s","s","w","o","r","d","1","2","3" >>,
    << "p","@","s","s","w","0","r","d" >> }

\* C4 amended: as above, with clause (b) read on the trimmed password; the
\* named cases "password", "Password123" and "p@ssw0rd" match.
C4_CommonPassword ==
  (Scored /\ pw # << >>) =>
    /\ IF ExactCommon(pw) \/ LettersDigitsVariant(Strip(pw)) \/ LeetCommon(pw)
       THEN CommonPenaltyApplied ELSE CommonPenaltyAbsent
    /\ pw \in NamedCommonCases => CommonPenaltyApplied

\* a password that matches only after trimming and only through clause (b)
C4_Witness ==
  /\ Scored
  /\ Strip(pw) # pw
  /\ LettersDigitsVariant(Strip(pw))
  /\ ~ ExactCommon(pw)
  /\ ~ LeetCommon(pw)
  /\ CommonPenaltyApplied

\* some character, whichever it is, occurs four times in a row
FourInARow(p) ==
  \E i \in 1 .. (Len(p) - 3) :
    p[i] = p[i + 1] /\ p[i] = p[i + 2] /\ p[i] = p[i + 3]

\* C5: the repeated-run penalty of 8 and its feedback line are applied
\* exactly when some character, line breaks and whitespace included, occurs
\* 4 or more times consecutively.
C5_RepeatedRuns ==
  (Scored /\ pw # << >>) =>
    IF FourInARow(pw)
    THEN /\ penalties \in { 8, 8 + 25, 8 + 6, 8 + 25 + 6 }
         /\ RepeatFeedback \in Range(result.feedback)
    ELSE /\ penalties \in { 0, 25, 6, 25 + 6 }
         /\ RepeatFeedback \notin Range(result.feedback)

\* C6: a password of at most 11 characters scores below 60.
C6_ShortBelow60 ==
  (Scored /\ Len(pw) <= 11) => result.score < 60

\* the best short password: 11 distinct characters of all four classes
C6_Witness ==
  /\ Scored
  /\ Len(pw) = 11
  /\ Cardinality(Range(pw)) = 11
  /\ AllFourClasses(pw)
  /\ penalties = 0
  /\ result.score = 51

\* C7: a password of 16 or more characters with all four classes, at least
\* 32 bits of combined entropy and no weak-pattern penalty scores at least 70.
C7_StrongAtLeast70 ==
  (/\ Scored
   /\ Len(pw) >= 16
   /\ AllFourClasses(pw)
   /\ result.entropy_bits >= 32 * Scale
   /\ penalties = 0)
  => result.score >= 70

C7_Witness ==
  /\ Scored
  /\ pw = StrongPw
  /\ result.entropy_bits >= 32 * Scale
  /\ penalties = 0
  /\ result.score >= 70

\* characters appended to a scored password
ProbeChars == { "a", "d", "Z", "1", "5", "!", " ", "\n" }

ClassPresent(p, c) ==
  IF IsLower(c) THEN HasLower(p)
  ELSE IF IsUpper(c) THEN HasUpper(p)
  ELSE IF IsDigit(c) THEN HasDigit(p)
  ELSE HasSymbol(p)

NoNewCheckFires(p, q) ==
  /\ looks_like_common_password(q) => looks_like_common_password(p)
  /\ has_repeated_runs(q) => has_repeated_runs(p)
  /\ has_keyboard_pattern(q) => has_keyboard_pattern(p)

\* C8: appending to a non-empty password a character of a class it does not
\* contain yet, without making a new weak-pattern check fire, never lowers
\* the score.
C8_Monotone ==
  (Scored /\ pw # << >>) =>
    \A c \in ProbeChars :
      (~ ClassPresent(pw, c) /\ NoNewCheckFires(pw, Append(pw, c)))
      => score_password(Append(pw, c)).score >= result.score

\* a 7-character password that the appended character moves to the next
\* length tier
C8_Witness ==
  /\ Scored
  /\ Len(pw) = 7
  /\ \E c \in ProbeChars :
       /\ ~ ClassPresent(pw, c)
       /\ NoNewCheckFires(pw, Append(pw, c))
       /\ score_password(Append(pw, c)).score > result.score

\* the points of the claim, from the length, the classes and the entropy
ClaimLengthPts(n) ==
  CASE n < 8 -> 5
    [] n \in 8 .. 11 -> 20
    [] n \in 12 .. 15 -> 32
    [] n >= 16 -> 40

ClaimVarietyPts(p) ==
  5 * Cardinality({ k \in 1 .. 4 :
                      \/ k = 1 /\ HasLower(p)
                      \/ k = 2 /\ HasUpper(p)
                      \/ k = 3 /\ HasDigit(p)
                      \/ k = 4 /\ HasSymbol(p) })

\* floor(min(25, bits / 80 * 25)) is the largest k <= 25 with 80 k <= 25 bits
ClaimEntropyPts(bits) ==
  CHOOSE k \in 0 .. 25 :
    /\ 80 * Scale * k <= 25 * bits
    /\ k < 25 => 80 * Scale * (k + 1) > 25 * bits

ClaimPenalties(p) ==
  (IF CommonFeedback \in Range(result.feedback) THEN 25 ELSE 0)
  + (IF RepeatFeedback \in Range(result.feedback) THEN 8 ELSE 0)
  + (IF KeyboardFeedback \in Range(result.feedback) THEN 6 ELSE 0)

ClaimScore(p) ==
  LET s == ClaimLengthPts(Len(p)) + ClaimVarietyPts(p)
           + ClaimEntropyPts(result.entropy_bits) - ClaimPenalties(p)
  IN  IF s < 0 THEN 0 ELSE IF s > 100 THEN 100 ELSE s

\* passwords holding a 4-character ascending or descending sequence
SequenceProbes ==
  { << "a","b","c","d","1","2","3","4" >> }
  \cup { SeqFragment \o f : f \in Fragments \cup { << >> } }
  \cup { f \o SeqFragment : f \in Fragments }

\* the same length, classes, entropy points and weak-pattern checks
AgreeOnInputs(p, q) ==
  /\ Len(p) = Len(q)
  /\ HasLower(p) = HasLower(q)
  /\ HasUpper(p) = HasUpper(q)
  /\ HasDigit(p) = HasDigit(q)
  /\ HasSymbol(p) = HasSymbol(q)
  /\ looks_like_common_password(p) = looks_like_common_password(q)
  /\ has_repeated_runs(p) = has_repeated_runs(q)
  /\ has_keyboard_pattern(p) = has_keyboard_pattern(q)
  /\ EntropyPts(EntropyBits(p)) = EntropyPts(EntropyBits(q))

\* C9: for a non-empty password the score is
\* clamp(length_pts + variety_pts + entropy_pts - penalties, 0, 100) with the
\* three penalties 25, 8 and 6, and has_sequence contributes nothing: a
\* password with a sequence scores the same as one without that agrees with
\* it on the length, the classes, the entropy points and the three checks.
C9_ScoreFormula ==
  (Scored /\ pw # << >>) =>
    /\ result.score = ClaimScore(pw)
    /\ \A q \in SequenceProbes :
         AgreeOnInputs(pw, q) => score_password(q).score = result.score

\* a scored password without a sequence that agrees with one holding a
\* sequence, no penalty involved
C9_Witness ==
  /\ Scored
  /\ pw # << >>
  /\ ~ has_sequence(pw)
  /\ penalties = 0
  /\ \E q \in SequenceProbes : has_sequence(q) /\ AgreeOnInputs(pw, q)

\* C10: the penalties subtracted from the score add up to at most 35.
C10_PenaltiesAtMost35 == Scored => penalties <= 35

====
